---------------------------- MODULE Spec2Model ----------------------------
(***************************************************************************)
(* The recommendation engine of reviewhub-backend                          *)
(* (recommendation_engine.py) over the models of app_enhanced.py.          *)
(*                                                                         *)
(* Numbers the code computes in floating point are modelled as exact       *)
(* rationals <<n, d>> in lowest terms with d > 0.                          *)
(* Optional values (a nullable column, an Optional argument, a missing     *)
(* cache entry) are sequences of length at most one: <<>> is None.         *)
(* Queries without ORDER BY return rows in primary-key order.              *)
(***************************************************************************)
EXTENDS Integers, Sequences, FiniteSets, TLC

\* ------------------------------------------------------------------------
\* Bounds of the model
\* ------------------------------------------------------------------------

\* Number of track_user_interaction calls one request thread may make.
MaxTracks == 1

\* Largest value of the clock, in days.
MaxClock == 8

\* Days by which the clock advances in one step.
TickDays == 4

\* Number of requests that call get_recommendation_engine.
MaxRequests == 3

\* Number of rows of the user table the collaborative filter is run over in the
\* crowd specification
MaxCrowd == 13

\* ------------------------------------------------------------------------
\* Rational arithmetic
\* ------------------------------------------------------------------------

Abs(n) == IF n < 0 THEN -n ELSE n

RECURSIVE GCD(_, _)
GCD(a, b) == IF b = 0 THEN a ELSE GCD(b, a % b)

Rat(n, d) ==
    LET g == GCD(Abs(n), d)
    IN  <<n \div g, d \div g>>

RInt(n) == <<n, 1>>
RZero == <<0, 1>>
ROne == <<1, 1>>
RAdd(x, y) == Rat(x[1] * y[2] + y[1] * x[2], x[2] * y[2])
RSub(x, y) == Rat(x[1] * y[2] - y[1] * x[2], x[2] * y[2])
RMul(x, y) == Rat(x[1] * y[1], x[2] * y[2])
RDiv(x, y) == IF y[1] > 0 THEN Rat(x[1] * y[2], x[2] * y[1])
                          ELSE Rat(-(x[1] * y[2]), x[2] * (-y[1]))
RLess(x, y) == x[1] * y[2] < y[1] * x[2]
RLeq(x, y) == x[1] * y[2] <= y[1] * x[2]
RMax(x, y) == IF RLess(x, y) THEN y ELSE x
RAbs(x) == <<Abs(x[1]), x[2]>>

RECURSIVE RSum(_)
RSum(s) == IF s = <<>> THEN RZero ELSE RAdd(s[1], RSum(Tail(s)))

\* np.mean of a non-empty list
RMean(s) == RDiv(RSum(s), RInt(Len(s)))

\* ------------------------------------------------------------------------
\* Optional values and Python sequence helpers
\* ------------------------------------------------------------------------

None == <<>>
Some(x) == <<x>>
IsSet(o) == o # <<>>
Val(o) == o[1]

\* Python truthiness of an optional number: None and 0 are falsy.
Truthy(o) == IsSet(o) /\ Val(o) # 0

\* A nullable string column holds NoBrand for NULL.
NoBrand == "<null>"

\* seq[:n] of Python: a negative n drops the last -n elements.
Slice(seq, n) ==
    LET len == Len(seq)
        k   == IF n >= 0 THEN (IF n < len THEN n ELSE len)
                         ELSE (IF len + n > 0 THEN len + n ELSE 0)
    IN  SubSeq(seq, 1, k)

SeqToSet(seq) == {seq[i] : i \in 1..Len(seq)}

\* list.sort(key=lambda x: x[1], reverse=True) / sorted(..., reverse=True):
\* a stable sort of <<key, score>> pairs by descending score; entries of
\* equal score keep their relative order.
\* An unstable insertion: the new entry goes before entries of equal score.
RECURSIVE InsertDesc_BeforeEqual(_, _)
InsertDesc_BeforeEqual(sorted, e) ==
    IF sorted = <<>> THEN <<e>>
    ELSE IF RLeq(sorted[1][2], e[2]) THEN <<e>> \o sorted
    ELSE <<sorted[1]>> \o InsertDesc_BeforeEqual(Tail(sorted), e)

RECURSIVE InsertDesc(_, _)
InsertDesc(sorted, e) ==
    IF sorted = <<>> THEN <<e>>
    ELSE IF RLess(sorted[1][2], e[2]) THEN <<e>> \o sorted
    ELSE <<sorted[1]>> \o InsertDesc(Tail(sorted), e)

RECURSIVE SortDesc(_)
SortDesc(seq) ==
    IF seq = <<>> THEN <<>>
    ELSE InsertDesc(SortDesc(SubSeq(seq, 1, Len(seq) - 1)), seq[Len(seq)])

\* defaultdict(float) filled by d[k] += v, as its items() in insertion order.
AccumulateInto(acc, k, v) ==
    IF \E i \in 1..Len(acc) : acc[i][1] = k
    THEN [i \in 1..Len(acc) |->
            IF acc[i][1] = k THEN <<k, RAdd(acc[i][2], v)>> ELSE acc[i]]
    ELSE Append(acc, <<k, v>>)

RECURSIVE Accumulate(_, _)
Accumulate(acc, pairs) ==
    IF pairs = <<>> THEN acc
    ELSE Accumulate(AccumulateInto(acc, pairs[1][1], pairs[1][2]), Tail(pairs))

\* dict lookup and membership over an items() sequence
HasKey(items, k) == \E i \in 1..Len(items) : items[i][1] = k
Lookup(items, k) == items[CHOOSE i \in 1..Len(items) : items[i][1] = k][2]


\* ------------------------------------------------------------------------
\* The catalog and the users (tables the engine only reads)
\* ------------------------------------------------------------------------

\* User.query.all(), as ids
UserRows == <<1, 2>>
Users == {1, 2}
Products == {1, 2, 3, 4}
CategoryIds == {1, 2}

\* Category.name
CategoryName(c) == IF c = 1 THEN "Electronics" ELSE "Home"

\* Product rows. reviews holds the ratings of the product's Review rows.
Catalog(p) ==
    CASE p = 1 -> [id |-> 1, category_id |-> 1, brand |-> "Acme",
                   price_min |-> Some(100), price_max |-> Some(100),
                   reviews |-> <<4>>, is_active |-> TRUE]
      [] p = 2 -> [id |-> 2, category_id |-> 2, brand |-> "Acme",
                   price_min |-> Some(100), price_max |-> Some(200),
                   reviews |-> <<>>, is_active |-> TRUE]
      [] p = 3 -> [id |-> 3, category_id |-> 2, brand |-> NoBrand,
                   price_min |-> None, price_max |-> None,
                   reviews |-> <<5, 4>>, is_active |-> TRUE]
      [] p = 4 -> [id |-> 4, category_id |-> 2, brand |-> "Bolt",
                   price_min |-> Some(50), price_max |-> Some(70),
                   reviews |-> <<3>>, is_active |-> FALSE]

\* Review rows (is_active), in primary-key order: the rows behind the reviews
\* of the products above.
ReviewRows ==
    <<[user_id |-> 1, product_id |-> 1, rating |-> 4],
      [user_id |-> 1, product_id |-> 3, rating |-> 5],
      [user_id |-> 2, product_id |-> 3, rating |-> 4],
      [user_id |-> 2, product_id |-> 4, rating |-> 3]>>

RECURSIVE SumSeq(_)
SumSeq(s) == IF s = <<>> THEN 0 ELSE s[1] + SumSeq(Tail(s))

\* Product.average_rating
average_rating(product) ==
    IF product.reviews = <<>> THEN RZero
    ELSE Rat(SumSeq(product.reviews), Len(product.reviews))

\* Python truthiness of Product.brand
HasBrand(product) == product.brand # NoBrand /\ product.brand # ""

\* Product.query.filter(category_id == c, is_active == True).all() as ids
RECURSIVE ActiveInCategoryFrom(_, _)
ActiveInCategoryFrom(c, p) ==
    IF p \notin Products THEN <<>>
    ELSE (IF Catalog(p).category_id = c /\ Catalog(p).is_active
          THEN <<p>> ELSE <<>>) \o ActiveInCategoryFrom(c, p + 1)

ActiveInCategory(c) == ActiveInCategoryFrom(c, 1)

\* Category.query.filter_by(name=n).first(), as an optional id
CategoryByName(n) ==
    IF \E c \in CategoryIds : CategoryName(c) = n
    THEN Some(CHOOSE c \in CategoryIds : CategoryName(c) = n)
    ELSE None

\* ------------------------------------------------------------------------
\* Interaction weights and the preference model
\* ------------------------------------------------------------------------

InteractionTypes == {"view", "search", "review", "purchase"}

_get_interaction_weight(interaction_type) ==
    CASE interaction_type = "view"     -> Rat(1, 1)
      [] interaction_type = "search"   -> Rat(3, 2)
      [] interaction_type = "review"   -> Rat(3, 1)
      [] interaction_type = "purchase" -> Rat(5, 1)
      [] OTHER                         -> Rat(1, 1)

\* The query without its filter_by(user_id=u)
UserEvents_Unfiltered(st, u) == st

\* UserInteraction.query.filter_by(user_id=u).all()
UserEvents(st, u) == SelectSeq(st, LAMBDA e : e.user_id = u)

\* set([i.product_id for i in ...filter_by(user_id=u).all()])
UserProducts(st, u) == {e.product_id : e \in SeqToSet(UserEvents(st, u))}

\* The scores left as they were accumulated
Normalize_Skipped(scores) == scores

\* Each score divided by the number of keys instead of the total
Normalize_ByCount(scores) ==
    [i \in 1..Len(scores) |->
        <<scores[i][1], RDiv(scores[i][2], RInt(Len(scores)))>>]

\* {k: v/total for k, v in scores.items()} when total > 0
Normalize(scores) ==
    LET total == RSum([i \in 1..Len(scores) |-> scores[i][2]])
    IN  IF RLess(RZero, total)
        THEN [i \in 1..Len(scores) |->
                <<scores[i][1], RDiv(scores[i][2], total)>>]
        ELSE scores

\* The preferences dict _update_user_preferences builds from the rows of its
\* query (the user's interactions joined with product and category).
ComputePreferences(st, u) ==
    LET interactions == UserEvents(st, u)
        n == Len(interactions)
        prod(i) == Catalog(interactions[i].product_id)
        weight(i) == _get_interaction_weight(interactions[i].interaction_type)
        category_scores ==
            Accumulate(<<>>, [i \in 1..n |->
                <<CategoryName(prod(i).category_id), weight(i)>>])
        branded == SelectSeq([i \in 1..n |-> i], LAMBDA i : HasBrand(prod(i)))
        brand_scores ==
            Accumulate(<<>>, [j \in 1..Len(branded) |->
                <<prod(branded[j]).brand, weight(branded[j])>>])
        priced == SelectSeq([i \in 1..n |-> i],
                      LAMBDA i : Truthy(prod(i).price_min)
                                 /\ Truthy(prod(i).price_max))
        price_preferences ==
            [j \in 1..Len(priced) |->
                Rat(Val(prod(priced[j]).price_min)
                    + Val(prod(priced[j]).price_max), 2)]
        rated == SelectSeq(interactions, LAMBDA e : Truthy(e.rating))
        rating_preferences == [j \in 1..Len(rated) |-> RInt(Val(rated[j].rating))]
    IN  [categories |-> Normalize(category_scores),
         brands |-> Normalize(brand_scores),
         avg_price_preference |->
            IF price_preferences # <<>> THEN Some(RMean(price_preferences)) ELSE None,
         avg_rating_given |->
            IF rating_preferences # <<>> THEN Some(RMean(rating_preferences)) ELSE None,
         interaction_count |-> n]


\* ------------------------------------------------------------------------
\* Collaborative filter
\* ------------------------------------------------------------------------

\* The exclusion left out: every product passes.
NotInteracted_Skipped(user_products, product_id) == TRUE

\* `interaction.product_id not in user_products` / `product.id not in user_products`
NotInteracted(user_products, product_id) == product_id \notin user_products

\* intersection over the user's own product set
Jaccard_OverOwnProducts(user_products, other_products) ==
    Rat(Cardinality(user_products \cap other_products),
        Cardinality(user_products))

\* intersection / union of two users' product sets (union > 0)
Jaccard(user_products, other_products) ==
    Rat(Cardinality(user_products \cap other_products),
        Cardinality(user_products \cup other_products))

\* Minimum similarity threshold: 0.1
SimilarityFloor == Rat(1, 10)

\* The floor test passed by a similarity equal to the floor
SimilarUsersOf_FloorInclusive(user_rows, st, u) ==
    LET user_products == UserProducts(st, u)
        others == SelectSeq(user_rows, LAMBDA v : v # u)
        passes(v) ==
            /\ Cardinality(user_products \cup UserProducts(st, v)) > 0
            /\ ~RLess(Jaccard(user_products, UserProducts(st, v)), SimilarityFloor)
        kept == SelectSeq(others, passes)
    IN  [i \in 1..Len(kept) |->
            <<kept[i], Jaccard(user_products, UserProducts(st, kept[i]))>>]

\* similar_users before sorting, over the rows of the user table: every
\* other user above the floor, as <<user id, similarity>>
SimilarUsersOf(user_rows, st, u) ==
    LET user_products == UserProducts(st, u)
        others == SelectSeq(user_rows, LAMBDA v : v # u)
        passes(v) ==
            /\ Cardinality(user_products \cup UserProducts(st, v)) > 0
            /\ RLess(SimilarityFloor, Jaccard(user_products, UserProducts(st, v)))
        kept == SelectSeq(others, passes)
    IN  [i \in 1..Len(kept) |->
            <<kept[i], Jaccard(user_products, UserProducts(st, kept[i]))>>]

\* similar_users before sorting, over the user table of the catalogue
SimilarUsers(st, u) == SimilarUsersOf(UserRows, st, u)

\* The weight without the rating factor
CollabWeight_IgnoresRating(similarity, interaction) ==
    RMul(similarity, _get_interaction_weight(interaction.interaction_type))

\* The weight one interaction of a similar user adds to its product
CollabWeight(similarity, interaction) ==
    LET weight == RMul(similarity,
                       _get_interaction_weight(interaction.interaction_type))
    IN  IF Truthy(interaction.rating)
        THEN RMul(weight, Rat(Val(interaction.rating), 5))
        ELSE weight

\* The <<product, weight>> additions of the similar users, in the order the
\* loops make them
RECURSIVE CollabAdditions(_, _, _)
CollabAdditions(st, user_products, similar) ==
    IF similar = <<>> THEN <<>>
    ELSE LET theirs == SelectSeq(UserEvents(st, similar[1][1]),
                           LAMBDA e : NotInteracted(user_products, e.product_id))
         IN  [i \in 1..Len(theirs) |->
                 <<theirs[i].product_id, CollabWeight(similar[1][2], theirs[i])>>]
             \o CollabAdditions(st, user_products, Tail(similar))

\* The similar users whose interactions are read: none for a user without
\* interactions, else the ten most similar
NeighboursOf(user_rows, st, u) ==
    IF UserProducts(st, u) = {} THEN <<>>
    ELSE Slice(SortDesc(SimilarUsersOf(user_rows, st, u)), 10)

\* _collaborative_filtering over the rows of the user table
CollaborativeFilteringOf(user_rows, st, u, limit) ==
    LET user_products == UserProducts(st, u)
    IN  IF user_products = {} THEN <<>>
        ELSE LET recommendations ==
                     Accumulate(<<>>, CollabAdditions(st, user_products,
                                          NeighboursOf(user_rows, st, u)))
             IN  Slice(SortDesc(recommendations), limit)

\* The similar users read over the user table of the catalogue
Neighbours(st, u) == NeighboursOf(UserRows, st, u)

_collaborative_filtering(st, u, limit) ==
    CollaborativeFilteringOf(UserRows, st, u, limit)

\* ------------------------------------------------------------------------
\* Content-based filter
\* ------------------------------------------------------------------------

\* The rating multiplier applied without its `> 0` guard.
ContentScore_AlwaysDiscounted(user_prefs, product, category_score) ==
    LET boosted ==
            IF HasBrand(product) /\ HasKey(user_prefs.brands, product.brand)
            THEN RMul(category_score,
                      RAdd(ROne, Lookup(user_prefs.brands, product.brand)))
            ELSE category_score
    IN  RMul(boosted, RDiv(average_rating(product), RInt(5)))

\* The score of one candidate product of a preferred category
ContentScore(user_prefs, product, category_score) ==
    LET boosted ==
            IF HasBrand(product) /\ HasKey(user_prefs.brands, product.brand)
            THEN RMul(category_score,
                      RAdd(ROne, Lookup(user_prefs.brands, product.brand)))
            ELSE category_score
    IN  IF RLess(RZero, average_rating(product))
        THEN RMul(boosted, RDiv(average_rating(product), RInt(5)))
        ELSE boosted

\* recommendations before sorting, category by category
RECURSIVE ContentCandidates(_, _, _)
ContentCandidates(user_prefs, user_products, categories) ==
    IF categories = <<>> THEN <<>>
    ELSE LET category == CategoryByName(categories[1][1])
             products ==
                 IF IsSet(category)
                 THEN SelectSeq(ActiveInCategory(Val(category)),
                          LAMBDA p : NotInteracted(user_products, p))
                 ELSE <<>>
         IN  [i \in 1..Len(products) |->
                 <<products[i],
                   ContentScore(user_prefs, Catalog(products[i]), categories[1][2])>>]
             \o ContentCandidates(user_prefs, user_products, Tail(categories))

\* prefs is what _get_user_preferences returned: Some(dict), or None for the
\* empty dict of a failed recompute
_content_based_filtering(prefs, st, u, limit) ==
    IF ~IsSet(prefs) \/ Val(prefs).categories = <<>> THEN <<>>
    ELSE Slice(SortDesc(ContentCandidates(Val(prefs), UserProducts(st, u),
                                          Val(prefs).categories)), limit)

\* ------------------------------------------------------------------------
\* Combiner
\* ------------------------------------------------------------------------

Scaled(recs, factor) ==
    [i \in 1..Len(recs) |-> <<recs[i][1], RMul(recs[i][2], factor)>>]

_combine_recommendations(collab_recs, content_recs) ==
    SortDesc(Accumulate(Accumulate(<<>>, Scaled(collab_recs, Rat(6, 10))),
                        Scaled(content_recs, Rat(4, 10))))


\* ------------------------------------------------------------------------
\* State
\* ------------------------------------------------------------------------

VARIABLES
    store,      \* the user_interaction table: the committed rows, in id order
    cache,      \* RecommendationEngine.user_preferences: user id -> optional dict
    pc,         \* where each request thread stands inside track_user_interaction
    local,      \* each request thread's locals
    now,        \* datetime.utcnow(), in days
    tracks,     \* track_user_interaction calls each request thread has made
    ret,        \* what the latest step returned to its caller
    engine      \* the global recommendation_engine and the requests inside
                \* get_recommendation_engine

vars == <<store, cache, pc, local, now, tracks, ret, engine>>

\* Request threads that may run track_user_interaction concurrently
Threads == {1, 2}

\* Arguments the callers pass
TrackInputs ==
    {<<"view", None>>, <<"purchase", Some(5)>>, <<"review", Some(6)>>}
Limits == {-1, 2}

\* Products the tracked interactions are about: one of each category (the
\* initial tables hold events on product 2 as well)
TrackedProducts == {1, 3}

\* The row without the rating it was given
Interaction_DropsRating(u, p, type, rating, ts) ==
    [user_id |-> u, product_id |-> p, interaction_type |-> type,
     rating |-> None, timestamp |-> ts]

Interaction(u, p, type, rating, ts) ==
    [user_id |-> u, product_id |-> p, interaction_type |-> type,
     rating |-> rating, timestamp |-> ts]

\* Tables the process may find when it starts: an empty one; one where user 2
\* has viewed products 1, 3 and 2, in that order; one where products 1 and 2
\* have two views each and product 3 one purchase rated 5.
InitStores ==
    {<<>>,
     <<Interaction(2, 1, "view", None, 0), Interaction(2, 3, "view", None, 0),
       Interaction(2, 2, "view", None, 0)>>,
     <<Interaction(1, 1, "view", None, 0), Interaction(2, 1, "view", None, 0),
       Interaction(1, 2, "view", None, 0), Interaction(2, 2, "view", None, 0),
       Interaction(1, 3, "purchase", Some(5), 0)>>}

NoRet == [op |-> "none"]
NoLocal == [user_id |-> 0, product_id |-> 0, interaction_type |-> "",
            rating |-> None, prefs |-> None]

\* Requests that call get_recommendation_engine
Requests == 1..MaxRequests

\* engine at process start: the global is None (0), no instance exists, no
\* request has called get_recommendation_engine. caches[i] holds the users
\* with an entry in the user_preferences of instance i.
EngineUnset ==
    [global |-> 0, created |-> 0,
     at |-> [r \in Requests |-> "start"],
     got |-> [r \in Requests |-> 0],
     caches |-> [i \in Requests |-> {}]]

\* engine once the requests have all obtained the first instance, whose
\* user_preferences is the variable cache
EngineReady ==
    [global |-> 1, created |-> 1,
     at |-> [r \in Requests |-> "done"],
     got |-> [r \in Requests |-> 1],
     caches |-> [i \in Requests |-> {}]]

Init ==
    /\ store \in InitStores
    /\ cache = [u \in Users |-> None]
    /\ pc = [t \in Threads |-> "idle"]
    /\ local = [t \in Threads |-> NoLocal]
    /\ now = 0
    /\ tracks = [t \in Threads |-> 0]
    /\ ret = NoRet
    /\ engine = EngineReady

\* ------------------------------------------------------------------------
\* track_user_interaction, step by step
\* ------------------------------------------------------------------------

\* What track_user_interaction hands back: it returns None on every path, the
\* except clause included, so raised is FALSE throughout.
TrackReturn(u, rating, committed, write_failed) ==
    [op |-> "track_user_interaction", user_id |-> u, rating |-> rating,
     committed |-> committed, write_failed |-> write_failed, raised |-> FALSE]

\* session.add(interaction); session.commit() succeed
TrackCommit(t, u, p, type, rating) ==
    /\ pc[t] = "idle"
    /\ tracks[t] < MaxTracks
    /\ tracks' = [tracks EXCEPT ![t] = @ + 1]
    /\ store' = Append(store, Interaction(u, p, type, rating, now))
    /\ pc' = [pc EXCEPT ![t] = "update"]
    /\ local' = [local EXCEPT ![t] =
                    [user_id |-> u, product_id |-> p, interaction_type |-> type,
                     rating |-> rating, prefs |-> None]]
    /\ ret' = NoRet
    /\ UNCHANGED <<cache, now, engine>>

\* The failed commit without its rollback: the added row reaches the table
TrackCommitFails_KeepsRow(t, u, p, type, rating) ==
    /\ pc[t] = "idle"
    /\ tracks[t] < MaxTracks
    /\ tracks' = [tracks EXCEPT ![t] = @ + 1]
    /\ store' = Append(store, Interaction(u, p, type, rating, now))
    /\ ret' = TrackReturn(u, rating, FALSE, TRUE)
    /\ UNCHANGED <<cache, pc, local, now, engine>>

\* session.add or session.commit raises: the except clause logs, rolls back
\* and the method returns
TrackCommitFails(t, u, p, type, rating) ==
    /\ pc[t] = "idle"
    /\ tracks[t] < MaxTracks
    /\ tracks' = [tracks EXCEPT ![t] = @ + 1]
    /\ ret' = TrackReturn(u, rating, FALSE, TRUE)
    /\ UNCHANGED <<store, cache, pc, local, now, engine>>

\* _update_user_preferences: the query runs and the dict is built
UpdateLoad(t) ==
    /\ pc[t] = "update"
    /\ local' = [local EXCEPT ![t].prefs =
                    Some(ComputePreferences(store, local[t].user_id))]
    /\ pc' = [pc EXCEPT ![t] = "publish"]
    /\ ret' = NoRet
    /\ UNCHANGED <<store, cache, now, tracks, engine>>

\* _update_user_preferences: the query raises; its except clause returns {}
\* and track_user_interaction returns
UpdateLoadFails(t) ==
    /\ pc[t] = "update"
    /\ pc' = [pc EXCEPT ![t] = "idle"]
    /\ local' = [local EXCEPT ![t] = NoLocal]
    /\ ret' = TrackReturn(local[t].user_id, local[t].rating, TRUE, FALSE)
    /\ UNCHANGED <<store, cache, now, tracks, engine>>

\* The publication that clears every other user's entry
UpdatePublish_ResetsOthers(t) ==
    /\ pc[t] = "publish"
    /\ cache' = [u \in Users |->
                    IF u = local[t].user_id THEN local[t].prefs ELSE None]
    /\ pc' = [pc EXCEPT ![t] = "idle"]
    /\ local' = [local EXCEPT ![t] = NoLocal]
    /\ ret' = TrackReturn(local[t].user_id, local[t].rating, TRUE, FALSE)
    /\ UNCHANGED <<store, now, tracks, engine>>

\* self.user_preferences[user_id] = preferences, and both methods return
UpdatePublish(t) ==
    /\ pc[t] = "publish"
    /\ cache' = [cache EXCEPT ![local[t].user_id] = local[t].prefs]
    /\ pc' = [pc EXCEPT ![t] = "idle"]
    /\ local' = [local EXCEPT ![t] = NoLocal]
    /\ ret' = TrackReturn(local[t].user_id, local[t].rating, TRUE, FALSE)
    /\ UNCHANGED <<store, now, tracks, engine>>

\* ------------------------------------------------------------------------
\* get_user_recommendations
\* ------------------------------------------------------------------------

\* _get_user_preferences: the cached dict, or a recompute on a miss
_get_user_preferences(c, st, u) ==
    IF IsSet(c[u]) THEN c[u] ELSE Some(ComputePreferences(st, u))

\* A failure of the collaborative filter taken as a failure of the call
GetUserRecommendations_FailureEmptiesAll(u, limit, collab_ok) ==
    LET user_prefs == _get_user_preferences(cache, store, u)
        collab_recs == IF collab_ok
                       THEN _collaborative_filtering(store, u, limit * 2)
                       ELSE <<>>
        content_recs == IF collab_ok
                        THEN _content_based_filtering(user_prefs, store, u, limit * 2)
                        ELSE <<>>
        combined_recs == _combine_recommendations(collab_recs, content_recs)
    IN  /\ cache' = [cache EXCEPT ![u] = user_prefs]
        /\ ret' = [op |-> "get_user_recommendations", user_id |-> u,
                   limit |-> limit, prefs |-> Val(user_prefs),
                   miss |-> ~IsSet(cache[u]), collab_failed |-> ~collab_ok,
                   similar |-> IF collab_ok THEN Neighbours(store, u) ELSE <<>>,
                   collab |-> collab_recs, content |-> content_recs,
                   value |-> Slice(combined_recs, limit), error |-> "none"]
        /\ UNCHANGED <<store, pc, local, now, tracks, engine>>

\* The method has no error result: it returns a list on every path, so error
\* is "none" throughout. collab_ok says whether the queries of
\* _collaborative_filtering succeed; when one raises, its except clause
\* returns [].
GetUserRecommendations(u, limit, collab_ok) ==
    LET user_prefs == _get_user_preferences(cache, store, u)
        collab_recs == IF collab_ok
                       THEN _collaborative_filtering(store, u, limit * 2)
                       ELSE <<>>
        content_recs == _content_based_filtering(user_prefs, store, u, limit * 2)
        combined_recs == _combine_recommendations(collab_recs, content_recs)
    IN  /\ cache' = [cache EXCEPT ![u] = user_prefs]
        /\ ret' = [op |-> "get_user_recommendations", user_id |-> u,
                   limit |-> limit, prefs |-> Val(user_prefs),
                   miss |-> ~IsSet(cache[u]), collab_failed |-> ~collab_ok,
                   similar |-> IF collab_ok THEN Neighbours(store, u) ELSE <<>>,
                   collab |-> collab_recs, content |-> content_recs,
                   value |-> Slice(combined_recs, limit), error |-> "none"]
        /\ UNCHANGED <<store, pc, local, now, tracks, engine>>

\* ------------------------------------------------------------------------
\* _calculate_product_similarity
\* ------------------------------------------------------------------------

\* (price_min + price_max) / 2
AvgPrice(product) == Rat(Val(product.price_min) + Val(product.price_max), 2)

HasPrices(product) == Truthy(product.price_min) /\ Truthy(product.price_max)

\* The category term with twice its weight
CategoryTerm_Doubled(product1, product2) ==
    IF product1.category_id = product2.category_id THEN Rat(8, 10) ELSE RZero

\* if product1.category_id == product2.category_id: similarity += 0.4
CategoryTerm(product1, product2) ==
    IF product1.category_id = product2.category_id THEN Rat(4, 10) ELSE RZero

\* The brand term weighted 0.2 instead of 0.3.
BrandTerm_Underweighted(product1, product2) ==
    IF HasBrand(product1) /\ HasBrand(product2) /\ product1.brand = product2.brand
    THEN Rat(2, 10) ELSE RZero

\* if product1.brand and product2.brand and equal: similarity += 0.3
BrandTerm(product1, product2) ==
    IF HasBrand(product1) /\ HasBrand(product2) /\ product1.brand = product2.brand
    THEN Rat(3, 10) ELSE RZero

\* The price difference taken relative to the smaller average price.
PriceTerm_MinDenominator(product1, product2) ==
    IF HasPrices(product1) /\ HasPrices(product2)
    THEN LET price1 == AvgPrice(product1)
             price2 == AvgPrice(product2)
             price_diff == RDiv(RAbs(RSub(price1, price2)),
                                IF RLess(price1, price2) THEN price1 ELSE price2)
         IN  RMul(RMax(RZero, RSub(ROne, price_diff)), Rat(2, 10))
    ELSE RZero

\* price_similarity * 0.2 when all four price bounds are truthy
PriceTerm(product1, product2) ==
    IF HasPrices(product1) /\ HasPrices(product2)
    THEN LET price1 == AvgPrice(product1)
             price2 == AvgPrice(product2)
             price_diff == RDiv(RAbs(RSub(price1, price2)), RMax(price1, price2))
         IN  RMul(RMax(RZero, RSub(ROne, price_diff)), Rat(2, 10))
    ELSE RZero

\* rating_similarity * 0.1
RatingTerm(product1, product2) ==
    LET rating_diff == RDiv(RAbs(RSub(average_rating(product1),
                                      average_rating(product2))), RInt(5))
    IN  RMul(RMax(RZero, RSub(ROne, rating_diff)), Rat(1, 10))

_calculate_product_similarity(product1, product2) ==
    RAdd(RAdd(RAdd(CategoryTerm(product1, product2), BrandTerm(product1, product2)),
              PriceTerm(product1, product2)),
         RatingTerm(product1, product2))

\* Product rows the schema admits: brand and the price bounds are nullable,
\* a product may have no review.
PriceBounds ==
    {<<None, None>>, <<Some(100), Some(100)>>, <<Some(150), Some(150)>>,
     <<Some(80), Some(120)>>, <<Some(0), Some(50)>>, <<Some(100), None>>}

ProductRows ==
    {[id |-> 0, category_id |-> c, brand |-> b, price_min |-> pr[1],
      price_max |-> pr[2], reviews |-> rv, is_active |-> TRUE] :
        c \in CategoryIds, b \in {NoBrand, "Acme", "Bolt"},
        pr \in PriceBounds, rv \in {<<>>, <<4>>, <<5, 4>>, <<5>>}}

\* The method applied to the arguments of a pending call
CalculateProductSimilarity ==
    /\ ret.op = "call _calculate_product_similarity"
    /\ ret' = [op |-> "_calculate_product_similarity",
               product1 |-> ret.product1, product2 |-> ret.product2,
               value |-> _calculate_product_similarity(ret.product1, ret.product2)]
    /\ UNCHANGED <<store, cache, pc, local, now, tracks, engine>>

\* ------------------------------------------------------------------------
\* get_trending_products
\* ------------------------------------------------------------------------

\* timedelta(days=7)
TrendWindowDays == 7

\* The aggregation without its timestamp filter
TrendRows_NoWindow(st, t, category_id) ==
    SelectSeq(st, LAMBDA e :
        Truthy(category_id)
            => Catalog(e.product_id).category_id = Val(category_id))

\* The rows the query aggregates: interactions with timestamp >= recent_date,
\* joined with their product and filtered by category when category_id is
\* truthy
TrendRows(st, t, category_id) ==
    SelectSeq(st, LAMBDA e :
        /\ e.timestamp >= t - TrendWindowDays
        /\ Truthy(category_id)
              => Catalog(e.product_id).category_id = Val(category_id))

\* func.count(UserInteraction.id) of product p's group
InteractionCount(rows, p) == Len(SelectSeq(rows, LAMBDA e : e.product_id = p))

\* func.avg(UserInteraction.rating) of product p's group: NULL ratings are
\* skipped, and the average of none is NULL
AvgRating(rows, p) ==
    LET rated == SelectSeq(rows, LAMBDA e : e.product_id = p /\ IsSet(e.rating))
    IN  IF rated = <<>> THEN None
        ELSE Some(RMean([i \in 1..Len(rated) |-> RInt(Val(rated[i].rating))]))

\* interaction_count * (avg_rating or 0) / 5.0
TrendScore(interaction_count, avg_rating) ==
    RDiv(RMul(RInt(interaction_count),
              IF IsSet(avg_rating) THEN Val(avg_rating) ELSE RZero),
         RInt(5))

\* The orders in which the database may hand back groups of equal count:
\* every arrangement of the products that have rows
GroupOrders(st) ==
    LET grouped == {e.product_id : e \in SeqToSet(st)}
    IN  {o \in [1..Cardinality(grouped) -> grouped] :
            \A i, j \in 1..Cardinality(grouped) : i # j => o[i] # o[j]}

\* The groups ordered by interaction_count descending, those of equal count
\* in the order group_order gives them, cut to the first max_rows
TrendingData(rows, group_order, max_rows) ==
    LET present == SelectSeq(group_order, LAMBDA p : InteractionCount(rows, p) > 0)
    IN  Slice(SortDesc([i \in 1..Len(present) |->
                  <<present[i], RInt(InteractionCount(rows, present[i]))>>]),
              max_rows)

\* The aggregation over a three-day window
get_trending_products_ShortWindow(st, t, category_id, limit, group_order) ==
    LET rows == SelectSeq(TrendRows(st, t, category_id),
                          LAMBDA e : e.timestamp >= t - 3)
        trending_data == TrendingData(rows, group_order, limit * 2)
        recommendations ==
            [i \in 1..Len(trending_data) |->
                <<trending_data[i][1],
                  TrendScore(trending_data[i][2][1],
                             AvgRating(rows, trending_data[i][1]))>>]
    IN  Slice(SortDesc(recommendations), limit)

get_trending_products(st, t, category_id, limit, group_order) ==
    LET rows == TrendRows(st, t, category_id)
        trending_data == TrendingData(rows, group_order, limit * 2)
        recommendations ==
            [i \in 1..Len(trending_data) |->
                <<trending_data[i][1],
                  TrendScore(trending_data[i][2][1],
                             AvgRating(rows, trending_data[i][1]))>>]
    IN  Slice(SortDesc(recommendations), limit)

CategoryFilters == {None, Some(1), Some(2)}
TrendLimits == {1, 2}

\* at is the utcnow() the call read; group_order the order the database used
GetTrendingProducts(category_id, limit, group_order) ==
    /\ ret' = [op |-> "get_trending_products", category_id |-> category_id,
               limit |-> limit, at |-> now, group_order |-> group_order,
               value |-> get_trending_products(store, now, category_id, limit,
                                               group_order)]
    /\ UNCHANGED <<store, cache, pc, local, now, tracks, engine>>

\* Time passes; the caller still holds what the latest call returned
Tick ==
    /\ now + TickDays <= MaxClock
    /\ now' = now + TickDays
    /\ UNCHANGED <<store, cache, pc, local, tracks, ret, engine>>

\* ------------------------------------------------------------------------
\* get_similar_products
\* ------------------------------------------------------------------------

\* Product.query.get(product_id)
ProductGet(product_id) ==
    IF product_id \in Products THEN Some(Catalog(product_id)) ELSE None

get_similar_products(product_id, limit) ==
    LET ref_product == ProductGet(product_id)
    IN  IF ~IsSet(ref_product) THEN <<>>
        ELSE LET similar_products ==
                     SelectSeq(ActiveInCategory(Val(ref_product).category_id),
                               LAMBDA p : p # product_id)
                 similarities ==
                     [i \in 1..Len(similar_products) |->
                         <<similar_products[i],
                           _calculate_product_similarity(
                               Val(ref_product), Catalog(similar_products[i]))>>]
             IN  Slice(SortDesc(similarities), limit)

\* Product ids the callers ask about; 5 is no product
ProductIds == Products \cup {5}

\* The lookup recorded as a view of the product
GetSimilarProducts_TracksView(product_id, limit) ==
    /\ ret' = [op |-> "get_similar_products", product_id |-> product_id,
               limit |-> limit,
               value |-> get_similar_products(product_id, limit)]
    /\ store' = Append(store, Interaction(1, product_id, "view", None, now))
    /\ UNCHANGED <<cache, pc, local, now, tracks, engine>>

GetSimilarProducts(product_id, limit) ==
    /\ ret' = [op |-> "get_similar_products", product_id |-> product_id,
               limit |-> limit,
               value |-> get_similar_products(product_id, limit)]
    /\ UNCHANGED <<store, cache, pc, local, now, tracks, engine>>

\* ------------------------------------------------------------------------
\* get_user_analytics
\* ------------------------------------------------------------------------

\* Counter(values) as a function from the values present to their counts
Counter(values) ==
    [v \in SeqToSet(values) |-> Len(SelectSeq(values, LAMBDA x : x = v))]

\* Review.query.filter_by(user_id=u, is_active=True).all()
UserReviews(u) == SelectSeq(ReviewRows, LAMBDA r : r.user_id = u)

\* The ten latest interactions of the user: order_by(timestamp.desc()).limit(10)
RecentInteractions(st, u) ==
    LET interactions == UserEvents(st, u)
        latest == SortDesc([i \in 1..Len(interactions) |->
                              <<i, RInt(interactions[i].timestamp)>>])
    IN  [i \in 1..Len(Slice(latest, 10)) |-> interactions[latest[i][1]]]

get_user_analytics(st, user_id) ==
    IF user_id \notin Users THEN [empty |-> TRUE]
    ELSE LET interactions == UserEvents(st, user_id)
             n == Len(interactions)
             ratings == [i \in 1..Len(UserReviews(user_id)) |->
                            UserReviews(user_id)[i].rating]
         IN  [empty |-> FALSE,
              user_id |-> user_id,
              review_count |-> Len(UserReviews(user_id)),
              interaction_stats |->
                  Counter([i \in 1..n |-> interactions[i].interaction_type]),
              category_preferences |->
                  Counter([i \in 1..n |->
                      CategoryName(Catalog(interactions[i].product_id).category_id)]),
              rating_distribution |-> Counter(ratings),
              average_rating |-> IF ratings # <<>>
                                 THEN Rat(SumSeq(ratings), Len(ratings))
                                 ELSE RZero,
              recent_activity |-> RecentInteractions(st, user_id)]

\* User ids the callers ask about; 3 is no user
UserIds == Users \cup {3}

GetUserAnalytics(user_id) ==
    /\ ret' = [op |-> "get_user_analytics", user_id |-> user_id,
               value |-> get_user_analytics(store, user_id)]
    /\ UNCHANGED <<store, cache, pc, local, now, tracks, engine>>

\* ------------------------------------------------------------------------
\* get_recommendation_engine
\* ------------------------------------------------------------------------

\* `if recommendation_engine is None:` read by request r
EngineCheck(r) ==
    /\ engine.at[r] = "start"
    /\ engine' = [engine EXCEPT !.at[r] =
                     IF engine.global = 0 THEN "create" ELSE "return"]
    /\ UNCHANGED <<store, cache, pc, local, now, tracks, ret>>

\* `recommendation_engine = RecommendationEngine(db)`: a new instance, with
\* an empty user_preferences, becomes the global
EngineCreate(r) ==
    /\ engine.at[r] = "create"
    /\ engine' = [engine EXCEPT !.created = @ + 1,
                                !.global = engine.created + 1,
                                !.at[r] = "return"]
    /\ UNCHANGED <<store, cache, pc, local, now, tracks, ret>>

\* `return recommendation_engine`: the request gets the instance the global
\* holds now
EngineReturn(r) ==
    /\ engine.at[r] = "return"
    /\ engine' = [engine EXCEPT !.got[r] = engine.global, !.at[r] = "done"]
    /\ UNCHANGED <<store, cache, pc, local, now, tracks, ret>>

\* The request tracks an interaction of its user through the engine it got:
\* that instance's user_preferences gets the user's entry
EngineUse(r) ==
    /\ engine.at[r] = "done"
    /\ engine' = [engine EXCEPT !.caches[engine.got[r]] = @ \cup {r},
                                !.at[r] = "used"]
    /\ UNCHANGED <<store, cache, pc, local, now, tracks, ret>>

\* ------------------------------------------------------------------------
\* Specification
\* ------------------------------------------------------------------------

\* One request thread's steps through track_user_interaction
TrackStep(t) ==
    \/ \E u \in Users, p \in TrackedProducts, in \in TrackInputs :
          \/ TrackCommit(t, u, p, in[1], in[2])
          \/ TrackCommitFails(t, u, p, in[1], in[2])
    \/ UpdateLoad(t)
    \/ UpdateLoadFails(t)
    \/ UpdatePublish(t)

ReadStep ==
    \E u \in Users, limit \in Limits : GetUserRecommendations(u, limit, TRUE)

\* Requests served one at a time
Next == TrackStep(1) \/ ReadStep

Spec == Init /\ [][Next]_vars

\* Two requests inside track_user_interaction at once, the store answering
\* every call
NextRace ==
    \E t \in Threads :
        \/ \E u \in Users, p \in TrackedProducts, in \in TrackInputs :
              TrackCommit(t, u, p, in[1], in[2])
        \/ UpdateLoad(t)
        \/ UpdatePublish(t)

SpecRace == Init /\ [][NextRace]_vars

\* Interactions the two request threads track in SpecWrite, as
\* <<user, product, type, rating>>
WriteInputs ==
    {<<1, 3, "purchase", Some(5)>>, <<2, 1, "view", None>>}

\* Tables SpecWrite starts from: an empty one, and one where user 2 has
\* viewed products 1 and 3
WriteStores ==
    {<<>>,
     <<Interaction(2, 1, "view", None, 0), Interaction(2, 3, "view", None, 0)>>}

InitWrite ==
    /\ store \in WriteStores
    /\ cache = [u \in Users |-> None]
    /\ pc = [t \in Threads |-> "idle"]
    /\ local = [t \in Threads |-> NoLocal]
    /\ now = 0
    /\ tracks = [t \in Threads |-> 0]
    /\ ret = NoRet
    /\ engine = EngineReady

\* Two requests inside track_user_interaction at once, each call of the
\* store succeeding or failing, and reads of the recommendations in between
NextWrite ==
    \/ \E t \in Threads :
          \/ \E in \in WriteInputs :
                \/ TrackCommit(t, in[1], in[2], in[3], in[4])
                \/ TrackCommitFails(t, in[1], in[2], in[3], in[4])
          \/ UpdateLoad(t)
          \/ UpdateLoadFails(t)
          \/ UpdatePublish(t)
    \/ \E u \in Users : GetUserRecommendations(u, 2, TRUE)

SpecWrite == InitWrite /\ [][NextWrite]_vars

\* Tracking, the passing of time and get_trending_products
NextTrend ==
    \/ TrackStep(1)
    \/ Tick
    \/ \E category_id \in CategoryFilters, limit \in TrendLimits,
          group_order \in GroupOrders(store) :
            GetTrendingProducts(category_id, limit, group_order)

SpecTrend == Init /\ [][NextTrend]_vars

\* _calculate_product_similarity called on any two product rows
InitSim ==
    /\ store = <<>>
    /\ cache = [u \in Users |-> None]
    /\ pc = [t \in Threads |-> "idle"]
    /\ local = [t \in Threads |-> NoLocal]
    /\ now = 0
    /\ tracks = [t \in Threads |-> 0]
    /\ ret \in {[op |-> "call _calculate_product_similarity",
                 product1 |-> product1, product2 |-> product2] :
                    product1 \in ProductRows, product2 \in ProductRows}
    /\ engine = EngineReady

NextSim == CalculateProductSimilarity

SpecSim == InitSim /\ [][NextSim]_vars

\* The process from its start: requests, possibly at once, obtain the engine
\* and use it
InitEngine ==
    /\ store = <<>>
    /\ cache = [u \in Users |-> None]
    /\ pc = [t \in Threads |-> "idle"]
    /\ local = [t \in Threads |-> NoLocal]
    /\ now = 0
    /\ tracks = [t \in Threads |-> 0]
    /\ ret = NoRet
    /\ engine = EngineUnset

NextEngine ==
    \E r \in Requests :
        \/ EngineCheck(r)
        \/ EngineCreate(r)
        \/ EngineReturn(r)
        \/ EngineUse(r)

SpecEngine == InitEngine /\ [][NextEngine]_vars

\* Tables the read operations may find. Besides those of InitStores: the
\* two users of scenario A; user 1 with one view and user 2 with that product
\* and three more; user 1 with a view of the unbranded product only; user 2's
\* events carrying the rating -1 that the tracking route stores unchecked;
\* user 1 with a view rated 2 and a purchase rated 4.
ScenarioA ==
    <<Interaction(1, 1, "view", None, 0), Interaction(1, 2, "purchase", Some(5), 0),
      Interaction(2, 1, "view", None, 0), Interaction(2, 3, "purchase", Some(4), 0)>>

ReadStores ==
    InitStores \cup
    {ScenarioA,
     <<Interaction(1, 1, "view", None, 0), Interaction(2, 1, "view", None, 0),
       Interaction(2, 2, "search", None, 0), Interaction(2, 3, "review", Some(3), 0),
       Interaction(2, 4, "purchase", Some(4), 0)>>,
     <<Interaction(1, 3, "view", None, 0)>>,
     <<Interaction(1, 1, "view", None, 0), Interaction(2, 1, "view", None, 0),
       Interaction(2, 2, "view", Some(-1), 0),
       Interaction(2, 3, "purchase", Some(-1), 0)>>,
     <<Interaction(1, 1, "view", Some(2), 0),
       Interaction(1, 2, "purchase", Some(4), 0)>>}

ReadLimits == {-1, 0, 1, 2}

\* The four read operations over a table nobody writes meanwhile
InitRead ==
    /\ store \in ReadStores
    /\ cache = [u \in Users |-> None]
    /\ pc = [t \in Threads |-> "idle"]
    /\ local = [t \in Threads |-> NoLocal]
    /\ now = 0
    /\ tracks = [t \in Threads |-> 0]
    /\ ret = NoRet
    /\ engine = EngineReady

NextRead ==
    \/ \E u \in Users, limit \in ReadLimits, collab_ok \in BOOLEAN :
          GetUserRecommendations(u, limit, collab_ok)
    \/ \E product_id \in ProductIds, limit \in ReadLimits :
          GetSimilarProducts(product_id, limit)
    \/ \E category_id \in CategoryFilters, limit \in TrendLimits,
          group_order \in GroupOrders(store) :
            GetTrendingProducts(category_id, limit, group_order)
    \/ \E user_id \in UserIds : GetUserAnalytics(user_id)

SpecRead == InitRead /\ [][NextRead]_vars

\* Tables get_trending_products may find while the clock runs: those of
\* InitStores, and two holding events recorded five and seven days before
\* the start.
ClockStores ==
    InitStores \cup
    {<<Interaction(1, 1, "purchase", Some(4), -5),
       Interaction(2, 1, "review", Some(5), -5),
       Interaction(1, 2, "purchase", Some(5), 0)>>,
     <<Interaction(1, 3, "purchase", Some(5), -7),
       Interaction(2, 2, "review", Some(3), 0),
       Interaction(2, 3, "view", None, 0)>>}

InitClock ==
    /\ store \in ClockStores
    /\ cache = [u \in Users |-> None]
    /\ pc = [t \in Threads |-> "idle"]
    /\ local = [t \in Threads |-> NoLocal]
    /\ now = 0
    /\ tracks = [t \in Threads |-> 0]
    /\ ret = NoRet
    /\ engine = EngineReady

\* get_trending_products called again and again while time passes and
\* nobody writes
NextClock ==
    \/ Tick
    \/ \E category_id \in CategoryFilters, limit \in TrendLimits,
          group_order \in GroupOrders(store) :
            GetTrendingProducts(category_id, limit, group_order)

SpecClock == InitClock /\ [][NextClock]_vars

\* ------------------------------------------------------------------------
\* The collaborative filter over a user table of more than ten users
\* ------------------------------------------------------------------------

\* User.query.all() of the crowd
CrowdRows == [i \in 1..MaxCrowd |-> i]

\* Users 2..8 of the crowd have the same two events; the others besides
\* user 1 each have one of three profiles
CrowdFixed == 2..8
CrowdFree == 9..MaxCrowd

\* The events of one user with a profile: "pair" has events on products 1
\* and 2, "fixed" on 1 and 3, "close" on 1, 2 and 3, "edge" on product 1 and
\* eight others, "far" on product 1 and seven others; "none" has no event.
\* The others are products 11..18 of a larger catalogue: the collaborative
\* filter reads product ids off the interaction rows only
ProfileEvents(v, profile) ==
    CASE profile = "pair"  -> <<Interaction(v, 1, "view", None, 0),
                                Interaction(v, 2, "review", Some(4), 0)>>
      [] profile = "fixed" -> <<Interaction(v, 1, "view", None, 0),
                                Interaction(v, 3, "purchase", Some(4), 0)>>
      [] profile = "close" -> <<Interaction(v, 1, "view", None, 0),
                                Interaction(v, 2, "view", None, 0),
                                Interaction(v, 3, "view", None, 0)>>
      [] profile = "edge"  -> <<Interaction(v, 1, "view", None, 0)>>
                              \o [i \in 1..8 |->
                                     Interaction(v, 10 + i, "view", None, 0)]
      [] profile = "far"   -> <<Interaction(v, 1, "view", None, 0)>>
                              \o [i \in 1..7 |->
                                     Interaction(v, 10 + i, "search", None, 0)]
      [] OTHER             -> <<>>

RECURSIVE CrowdEvents(_, _)
CrowdEvents(profiles, v) ==
    IF v > MaxCrowd THEN <<>>
    ELSE ProfileEvents(v, profiles[v]) \o CrowdEvents(profiles, v + 1)

\* The interaction tables of the crowd: user 1 with events on products 1
\* and 2 or with none
CrowdStores ==
    {CrowdEvents([v \in 1..MaxCrowd |->
                    IF v = 1 THEN first
                    ELSE IF v \in CrowdFixed THEN "fixed" ELSE free[v]], 1) :
        first \in {"pair", "none"},
        free \in [CrowdFree -> {"close", "edge", "far"}]}

\* _collaborative_filtering(u, limit) run over the crowd
CollaborativeFiltering(u, limit) ==
    /\ ret' = [op |-> "_collaborative_filtering", user_id |-> u,
               limit |-> limit,
               similar |-> NeighboursOf(CrowdRows, store, u),
               value |-> CollaborativeFilteringOf(CrowdRows, store, u, limit)]
    /\ UNCHANGED <<store, cache, pc, local, now, tracks, engine>>

InitCrowd ==
    /\ store \in CrowdStores
    /\ cache = [u \in Users |-> None]
    /\ pc = [t \in Threads |-> "idle"]
    /\ local = [t \in Threads |-> NoLocal]
    /\ now = 0
    /\ tracks = [t \in Threads |-> 0]
    /\ ret = NoRet
    /\ engine = EngineReady

NextCrowd ==
    \E u \in {1, 2}, limit \in {2, 20} : CollaborativeFiltering(u, limit)

SpecCrowd == InitCrowd /\ [][NextCrowd]_vars


\* ------------------------------------------------------------------------
\* Properties of get_user_recommendations and track_user_interaction (Spec)
\* ------------------------------------------------------------------------

IsRecs == ret.op = "get_user_recommendations"
IsTrack == ret.op = "track_user_interaction"
Fresh(u) == Some(ComputePreferences(store, u))

\* C1: no product get_user_recommendations(u, limit) returns is a product u
\* has an interaction with in the store at the time of the call.
C1_NoInteractedRecommended ==
    IsRecs =>
        \A i \in 1..Len(ret.value) :
            ret.value[i][1] \notin UserProducts(store, ret.user_id)

\* C1 witness: after a track call, a user with interactions gets a non-empty
\* list of recommendations.
C1_Witness ==
    /\ IsRecs
    /\ tracks[1] > 0
    /\ ret.value # <<>>
    /\ UserProducts(store, ret.user_id) # {}

\* C2 as claimed: when track_user_interaction returns after committing its
\* event, the model the next read for that user uses is the one derived from
\* the user's events in the store, the new one included.
C2_NextReadFresh ==
    (IsTrack /\ ret.committed) =>
        _get_user_preferences(cache, store, ret.user_id) = Fresh(ret.user_id)

\* C3 as claimed: once the interleaved track_user_interaction calls have all
\* returned, every cached model equals the model derived from the store.
C3_NoLostRecompute ==
    (\A t \in Threads : pc[t] = "idle") =>
        \A u \in Users : IsSet(cache[u]) => cache[u] = Fresh(u)

\* C4 as claimed: a failing store write inside track_user_interaction reaches
\* the caller as an error.
C4_WriteFailurePropagates ==
    (IsTrack /\ ret.write_failed) => ret.raised

\* C5 as claimed: a rating outside 1..5 is never appended to the store, and
\* a negative limit yields an InvalidInput error.
C5_InvalidInputRejected ==
    /\ \A i \in 1..Len(store) :
          IsSet(store[i].rating) => Val(store[i].rating) \in 1..5
    /\ (IsRecs /\ ret.limit < 0) => ret.error = "InvalidInput"

ZeroRated(p) == Catalog(p).reviews = <<>>

FirstIndex(recs, p) == CHOOSE i \in 1..Len(recs) :
    recs[i][1] = p /\ \A j \in 1..(i - 1) : recs[j][1] # p

\* C10 as claimed: of two recommendations with equal combined score, the one
\* with the smaller product id comes first.
C10_TiesByProductId ==
    IsRecs =>
        \A i, j \in 1..Len(ret.value) :
            (i < j /\ ret.value[i][2] = ret.value[j][2])
                => ret.value[i][1] < ret.value[j][1]

\* C10 amended: recommendations with equal combined score keep the order in
\* which their products were first inserted into the combined map, the
\* collaborative candidates first and the content-based ones after them.
C10_TiesKeepInsertionOrder ==
    IsRecs =>
        \A i, j \in 1..Len(ret.value) :
            (i < j /\ ret.value[i][2] = ret.value[j][2])
                => FirstIndex(ret.collab \o ret.content, ret.value[i][1])
                     < FirstIndex(ret.collab \o ret.content, ret.value[j][1])

\* C10 witness: two recommendations with equal combined score are returned.
C10_Witness ==
    /\ IsRecs
    /\ \E i, j \in 1..Len(ret.value) :
          i < j /\ ret.value[i][2] = ret.value[j][2]


\* ------------------------------------------------------------------------
\* Properties of _calculate_product_similarity (SpecSim)
\* ------------------------------------------------------------------------

IsSim == ret.op = "_calculate_product_similarity"

\* A rational rounded to four decimals, as the integer of its ten-thousandths
Round4(x) == (x[1] * 20000 + x[2]) \div (2 * x[2])

\* The products of the worked example: same category, same non-null brand,
\* average prices 100 and 150, equal average ratings.
ScenarioD ==
    /\ IsSim
    /\ ret.product1.category_id = ret.product2.category_id
    /\ HasBrand(ret.product1)
    /\ ret.product1.brand = ret.product2.brand
    /\ HasPrices(ret.product1) /\ HasPrices(ret.product2)
    /\ AvgPrice(ret.product1) = RInt(100)
    /\ AvgPrice(ret.product2) = RInt(150)
    /\ average_rating(ret.product1) = average_rating(ret.product2)

\* C8 as claimed: for the products of the worked example
\* _calculate_product_similarity returns 0.8333.
C8_ScenarioD_08333 == ScenarioD => Round4(ret.value) = 8333

\* C8 amended: for the products of the worked example
\* _calculate_product_similarity returns 0.4 + 0.3 + 0.2 * (2/3) + 0.1 =
\* 14/15, which is 0.9333.
C8_ScenarioD_09333 ==
    ScenarioD => (ret.value = Rat(14, 15) /\ Round4(ret.value) = 9333)

\* C8 witness: the similarity of two such products has been computed.
C8_Witness == ScenarioD

\* C9 as claimed: the similarity of any product row with itself is 1.
C9_SelfSimilarityOne ==
    (IsSim /\ ret.product1 = ret.product2) => ret.value = ROne

\* C9 amended: the similarity of a product row with itself is 1 when the
\* row has a brand and both price bounds set and positive.
C9_SelfSimilarityOneWhenPricedAndBranded ==
    (IsSim /\ ret.product1 = ret.product2
           /\ HasBrand(ret.product1) /\ HasPrices(ret.product1))
        => ret.value = ROne

\* C9 witness: a branded, priced product row has been compared with itself.
C9_Witness ==
    /\ IsSim
    /\ ret.product1 = ret.product2
    /\ HasBrand(ret.product1)
    /\ HasPrices(ret.product1)


\* ------------------------------------------------------------------------
\* Properties of get_trending_products (SpecTrend)
\* ------------------------------------------------------------------------

IsTrending == ret.op = "get_trending_products"

Min(a, b) == IF a < b THEN a ELSE b

\* C7 as claimed: get_trending_products returns the `limit` products of
\* highest trend score among all products (of the category, when given) with
\* an event in the trailing window, each with its trend score, in descending
\* order of trend score.
C7_TopByTrendScore ==
    IsTrending =>
        LET rows == TrendRows(store, now, ret.category_id)
            eligible == {p \in Products : InteractionCount(rows, p) > 0}
            score(p) == TrendScore(InteractionCount(rows, p), AvgRating(rows, p))
            returned == {ret.value[i][1] : i \in 1..Len(ret.value)}
        IN  /\ Len(ret.value) = Min(ret.limit, Cardinality(eligible))
            /\ Cardinality(returned) = Len(ret.value)
            /\ \A i \in 1..Len(ret.value) :
                  /\ ret.value[i][1] \in eligible
                  /\ ret.value[i][2] = score(ret.value[i][1])
            /\ \A i, j \in 1..Len(ret.value) :
                  i < j => RLeq(ret.value[j][2], ret.value[i][2])
            /\ \A p \in eligible \ returned :
                  \A i \in 1..Len(ret.value) : RLeq(score(p), ret.value[i][2])

\* ------------------------------------------------------------------------
\* The combiner
\* ------------------------------------------------------------------------

\* The score a filter's list gives product p, 0 when p is not in it
SignalOf(recs, p) == IF HasKey(recs, p) THEN Lookup(recs, p) ELSE RZero

\* 0.6 x collaborative_score + 0.4 x content_score
CombinedScore(collab, content, p) ==
    RAdd(RMul(Rat(6, 10), SignalOf(collab, p)),
         RMul(Rat(4, 10), SignalOf(content, p)))

\* Descending by score
Descending(recs) ==
    \A i, j \in 1..Len(recs) : i < j => RLeq(recs[j][2], recs[i][2])

\* What the claim says of one call's result: each filter gave at most 2 x limit
\* candidates, every returned product carries the combined score, no product
\* is returned twice, at most limit products are returned, in descending
\* order, and no candidate left out scores above a returned one.
CombinedTopLimit ==
    LET candidates == {ret.collab[i][1] : i \in 1..Len(ret.collab)}
                      \cup {ret.content[i][1] : i \in 1..Len(ret.content)}
        returned == {ret.value[i][1] : i \in 1..Len(ret.value)}
    IN  /\ Len(ret.collab) <= 2 * ret.limit
        /\ Len(ret.content) <= 2 * ret.limit
        /\ Len(ret.value) <= ret.limit
        /\ Cardinality(returned) = Len(ret.value)
        /\ returned \subseteq candidates
        /\ \A i \in 1..Len(ret.value) :
              ret.value[i][2] =
                  CombinedScore(ret.collab, ret.content, ret.value[i][1])
        /\ Descending(ret.value)
        /\ Len(ret.value) = Min(ret.limit, Cardinality(candidates))
        /\ \A p \in candidates \ returned : \A i \in 1..Len(ret.value) :
              RLeq(CombinedScore(ret.collab, ret.content, p), ret.value[i][2])

\* C11: get_user_recommendations(u, limit) takes at most 2 x limit candidates
\* from each filter, scores every candidate 0.6 x collaborative + 0.4 x content
\* (a missing signal counting as 0) and returns at most limit results, the
\* best ones, in descending order of combined score - for every limit a
\* caller passes.
C11_CombinedTopLimit == IsRecs => CombinedTopLimit

\* C11, for the limits the specification admits: with limit >= 0 the result
\* of get_user_recommendations is as the claim says.
C11_CombinedTopLimitWhenLimitValid ==
    (IsRecs /\ ret.limit >= 0) => CombinedTopLimit

\* A call with limit 1 whose collaborative filter had three candidates and
\* handed over two, of which one is returned.
C11_TruncatedCall ==
    /\ IsRecs
    /\ ret.limit = 1
    /\ Len(ret.collab) = 2
    /\ Len(_collaborative_filtering(store, ret.user_id, 10)) = 3
    /\ Len(ret.value) = 1

\* C12: when the collaborative filter fails inside get_user_recommendations,
\* its list is empty, the content-based filter's list is what it is without
\* the failure, and the call returns that list's first limit products, each
\* with 0.4 x its content score.
C12_ContentSurvivesCollabFailure ==
    (IsRecs /\ ret.collab_failed) =>
        /\ ret.collab = <<>>
        /\ ret.content = _content_based_filtering(Some(ret.prefs), store,
                                                  ret.user_id, 2 * ret.limit)
        /\ ret.value = Slice(Scaled(ret.content, Rat(4, 10)), ret.limit)

\* A call whose collaborative filter failed although it had candidates, and
\* which returns content-based candidates.
C12_Witness ==
    /\ IsRecs
    /\ ret.collab_failed
    /\ _collaborative_filtering(store, ret.user_id, 2 * ret.limit) # <<>>
    /\ ret.value # <<>>

\* ------------------------------------------------------------------------
\* The read operations and the store
\* ------------------------------------------------------------------------

ReadOps == {"get_user_recommendations", "get_similar_products",
            "get_trending_products", "get_user_analytics"}

\* C13: a step of get_user_recommendations, get_similar_products,
\* get_trending_products or get_user_analytics leaves the stored interactions
\* as they were, whatever its arguments. (The catalog is a table no action of
\* the model writes.)
C13_ReadsLeaveStore == [][ret'.op \in ReadOps => store' = store]_vars

\* A read that recomputed and cached a preference model over a table that
\* holds interactions.
C13_Witness == IsRecs /\ ret.miss /\ store # <<>> /\ IsSet(cache[ret.user_id])

\* ------------------------------------------------------------------------
\* get_trending_products called twice
\* ------------------------------------------------------------------------

\* Two calls in a row with the same arguments, the database ordering groups
\* of equal count the same way, and no write between them
SameTrendingCall ==
    /\ IsTrending
    /\ ret'.op = "get_trending_products"
    /\ ret'.category_id = ret.category_id
    /\ ret'.limit = ret.limit
    /\ ret'.group_order = ret.group_order
    /\ store' = store

\* C14: two calls of get_trending_products with the same arguments and no
\* write between them return the same products in the same order with the
\* same scores, also when the clock advanced between them.
C14_TrendingRepeatable == [][SameTrendingCall => ret'.value = ret.value]_vars

\* C14, amended: the two calls return the same when the same stored events lie
\* within the seven-day window at both calls.
C14_TrendingRepeatableWithinWindow ==
    [][(SameTrendingCall
        /\ TrendRows(store, ret.at, ret.category_id)
             = TrendRows(store, ret'.at, ret.category_id))
       => ret'.value = ret.value]_vars

\* A call made after the clock advanced, with every stored event still in
\* the window, that returns products.
C14_Witness ==
    /\ IsTrending
    /\ ret.at > 0
    /\ now = ret.at
    /\ ret.value # <<>>
    /\ TrendRows(store, 0, ret.category_id) = TrendRows(store, ret.at, ret.category_id)

\* ------------------------------------------------------------------------
\* The preference model
\* ------------------------------------------------------------------------

WeightSum(weights) == RSum([i \in 1..Len(weights) |-> weights[i][2]])

EmptyOrSumsToOne(weights) == weights = <<>> \/ WeightSum(weights) = ROne

\* Rows of user u in the store, and those on a product with a brand
HasInteraction(u) == \E i \in 1..Len(store) : store[i].user_id = u
HasBrandedInteraction(u) ==
    \E i \in 1..Len(store) :
        store[i].user_id = u /\ HasBrand(Catalog(store[i].product_id))

\* A model just built for user u from the store as it is
WellFormedModel(m, u) ==
    /\ EmptyOrSumsToOne(m.categories)
    /\ EmptyOrSumsToOne(m.brands)
    /\ (m.categories = <<>>) <=> ~HasInteraction(u)
    /\ (m.brands = <<>>) <=> ~HasBrandedInteraction(u)

\* C15: in every preference model _update_user_preferences builds - inside
\* track_user_interaction or on a cache miss - the category weights are empty
\* or sum to 1 and so are the brand weights; the category map is empty exactly
\* when the user has no interaction, the brand map exactly when the user has
\* none on a branded product. Cached models keep the sums.
C15_WeightMapsNormalised ==
    /\ \A t \in Threads :
          pc[t] = "publish" =>
              WellFormedModel(Val(local[t].prefs), local[t].user_id)
    /\ (IsRecs /\ ret.miss) => WellFormedModel(ret.prefs, ret.user_id)
    /\ \A u \in Users :
          IsSet(cache[u]) => /\ EmptyOrSumsToOne(Val(cache[u]).categories)
                             /\ EmptyOrSumsToOne(Val(cache[u]).brands)

\* A model built for a user whose only interactions are on the unbranded
\* product: category weights and no brand weight.
C15_Witness ==
    \E t \in Threads :
        /\ pc[t] = "publish"
        /\ Val(local[t].prefs).brands = <<>>
        /\ Val(local[t].prefs).categories # <<>>

EmptyModel ==
    [categories |-> <<>>, brands |-> <<>>, avg_price_preference |-> None,
     avg_rating_given |-> None, interaction_count |-> 0]

\* C20: for a user without interactions, _update_user_preferences returns and
\* caches the model with empty category and brand maps, no average price, no
\* average rating and interaction_count 0, and the call that asked for it
\* returns without an error.
C20_EmptyModelForNewUser ==
    (IsRecs /\ ret.miss /\ ~HasInteraction(ret.user_id)) =>
        /\ ret.prefs = EmptyModel
        /\ cache[ret.user_id] = Some(EmptyModel)
        /\ ret.error = "none"

\* A cache miss for a user without interactions while another user has some.
C20_Witness ==
    IsRecs /\ ret.miss /\ ~HasInteraction(ret.user_id) /\ store # <<>>

\* ------------------------------------------------------------------------
\* The collaborative filter
\* ------------------------------------------------------------------------

\* C16: with the events of scenario A, the Jaccard similarity of users 1 and 2
\* is 1/3, user 2 is the one neighbour of user 1, and the collaborative list
\* for user 1 is product 3 alone with score (1/3) x 5 x (4/5) = 4/3 = 1.333.
C16_ScenarioA ==
    (IsRecs /\ store = ScenarioA /\ ret.user_id = 1 /\ ~ret.collab_failed
        /\ ret.limit >= 1) =>
        /\ Jaccard(UserProducts(store, 1), UserProducts(store, 2)) = Rat(1, 3)
        /\ ret.similar = << <<2, Rat(1, 3)>> >>
        /\ ret.collab = << <<3, Rat(4, 3)>> >>
        /\ Round4(ret.collab[1][2]) = 13333

C16_Witness ==
    /\ IsRecs
    /\ store = ScenarioA
    /\ ret.user_id = 1
    /\ ~ret.collab_failed
    /\ ret.limit >= 1

\* What a stored event of a neighbour with similarity s would add if it were
\* of the given type
ContributionAs(s, e, type) ==
    CollabWeight(s, [e EXCEPT !.interaction_type = type])

StrictlyOrderedByType(s, e) ==
    /\ RLess(ContributionAs(s, e, "view"), ContributionAs(s, e, "search"))
    /\ RLess(ContributionAs(s, e, "search"), ContributionAs(s, e, "review"))
    /\ RLess(ContributionAs(s, e, "review"), ContributionAs(s, e, "purchase"))

\* C17: for every neighbour similarity the filter computed and every stored
\* event, the event's contribution with the same rating is strictly ordered
\* by type: view < search < review < purchase.
C17_ContributionOrderedByType ==
    IsRecs =>
        \A k \in 1..Len(ret.similar) : \A e \in SeqToSet(store) :
            StrictlyOrderedByType(ret.similar[k][2], e)

\* C17, for the ratings the specification admits: the order holds for every
\* event without a rating or with a rating above 0.
C17_ContributionOrderedWhenRatingValid ==
    IsRecs =>
        \A k \in 1..Len(ret.similar) : \A e \in SeqToSet(store) :
            (~IsSet(e.rating) \/ Val(e.rating) >= 0) =>
                StrictlyOrderedByType(ret.similar[k][2], e)

C17_RatedNeighbourEvent ==
    /\ IsRecs
    /\ ret.similar # <<>>
    /\ \E e \in SeqToSet(store) : Truthy(e.rating) /\ Val(e.rating) > 0

\* C19: the similarity computed for v while recommending for u equals the one
\* computed for u while recommending for v, and v is among u's similar users
\* exactly when u is among v's.
C19_JaccardSymmetric ==
    (IsRecs /\ ~ret.collab_failed) =>
        \A v \in Users \ {ret.user_id} :
            LET u == ret.user_id
                mine == UserProducts(store, u)
                theirs == UserProducts(store, v)
                back == Neighbours(store, v)
            IN  /\ (mine # {} /\ theirs # {}) =>
                      Jaccard(mine, theirs) = Jaccard(theirs, mine)
                /\ HasKey(ret.similar, v) <=> HasKey(back, u)
                /\ HasKey(ret.similar, v) =>
                      Lookup(ret.similar, v) = Lookup(back, u)

\* A call that kept a neighbour whose product set differs from the user's.
C19_Witness ==
    /\ IsRecs
    /\ ret.similar # <<>>
    /\ \E v \in Users :
          /\ HasKey(ret.similar, v)
          /\ UserProducts(store, v) # UserProducts(store, ret.user_id)

\* ------------------------------------------------------------------------
\* Ranges
\* ------------------------------------------------------------------------

InUnitInterval(x) == RLeq(RZero, x) /\ RLeq(x, ROne)

NothingRecent ==
    \A i \in 1..Len(store) : store[i].timestamp < ret.at - TrendWindowDays

\* C21: when no stored event has a timestamp within the seven days before the
\* call, get_trending_products returns the empty list, with or without a
\* category, also when the store holds older events.
C21_NothingRecentNothingTrending ==
    (IsTrending /\ NothingRecent) => ret.value = <<>>

\* A call over a store that holds events, all of them older than the window.
C21_Witness == IsTrending /\ NothingRecent /\ store # <<>>

\* ------------------------------------------------------------------------
\* The engine instance
\* ------------------------------------------------------------------------

\* C30: at most one RecommendationEngine is ever created, every call of
\* get_recommendation_engine returns the same instance, and the entry a
\* request wrote through its engine is in the engine later requests get.
C30_SingleEngine ==
    /\ engine.created <= 1
    /\ \A r1, r2 \in Requests :
          (engine.got[r1] # 0 /\ engine.got[r2] # 0)
              => engine.got[r1] = engine.got[r2]
    /\ \A r \in Requests :
          engine.at[r] = "used" => r \in engine.caches[engine.global]

\* ------------------------------------------------------------------------
\* The store and the cache under track_user_interaction
\* ------------------------------------------------------------------------

\* The step appends one row to the store and changes no row already there
AppendsOne ==
    /\ Len(store') = Len(store) + 1
    /\ SubSeq(store', 1, Len(store)) = store

\* C22: every step leaves the stored events as they are or appends exactly
\* one, in the commit step of a track_user_interaction call, and the appended
\* event carries that call's user, product, type and rating and the current
\* time. No step changes or removes a stored event.
C22_StoreAppendOnly ==
    [][store' # store =>
          /\ AppendsOne
          /\ \E t \in Threads :
                /\ pc[t] = "idle"
                /\ pc'[t] = "update"
                /\ store'[Len(store')] =
                       [user_id |-> local'[t].user_id,
                        product_id |-> local'[t].product_id,
                        interaction_type |-> local'[t].interaction_type,
                        rating |-> local'[t].rating,
                        timestamp |-> now]]_vars

\* Two tracked interactions are stored on top of a table that already held
\* rows, and the call has returned.
C22_Witness ==
    /\ IsTrack
    /\ ret.committed
    /\ \E init \in WriteStores : init # <<>> /\ Len(store) = Len(init) + 2
                                  /\ SubSeq(store, 1, Len(init)) = init

\* C28: a track_user_interaction call whose commit fails leaves the stored
\* events and every user's cache entry as they were.
C28_FailedCommitNoEffect ==
    [][(ret'.op = "track_user_interaction" /\ ret'.write_failed)
          => store' = store /\ cache' = cache]_vars

\* A commit failed for a user who has a cache entry, in a store with rows.
C28_Witness ==
    /\ IsTrack
    /\ ret.write_failed
    /\ IsSet(cache[ret.user_id])
    /\ store # <<>>

\* The step is the publication of a recompute for user u, or a read for u
\* that missed the cache
RecomputeFor(u) ==
    \/ \E t \in Threads : pc[t] = "publish" /\ pc'[t] = "idle"
                          /\ local[t].user_id = u
    \/ ret'.op = "get_user_recommendations" /\ ret'.user_id = u /\ ret'.miss
                                            /\ ret' # ret

\* C29: a step changes the cache entry of user u only by a recompute for u -
\* in track_user_interaction(u, ...) or in a read for u that misses the cache;
\* a read that hits the cache changes no entry.
C29_CacheChangesOnlyByOwnRecompute ==
    [][/\ \A u \in Users : cache'[u] # cache[u] => RecomputeFor(u)
       /\ (ret'.op = "get_user_recommendations" /\ ~ret'.miss /\ ret' # ret)
             => cache' = cache]_vars

\* Both users have an entry, one written by a read and one by tracking.
C29_Witness ==
    /\ IsTrack
    /\ ret.committed
    /\ \A u \in Users : IsSet(cache[u])

Complete(m) ==
    /\ DOMAIN m = {"categories", "brands", "avg_price_preference",
                   "avg_rating_given", "interaction_count"}
    /\ EmptyOrSumsToOne(m.categories)
    /\ EmptyOrSumsToOne(m.brands)

\* C26: in every state, also between the steps of two recomputes running at
\* once, each cache entry is absent or a complete model with normalized
\* weights, and a model waiting to be published is already complete, so that
\* publishing replaces the entry as a whole.
C26_CacheEntriesComplete ==
    /\ \A u \in Users : IsSet(cache[u]) => Complete(Val(cache[u]))
    /\ \A t \in Threads :
          pc[t] = "publish" => /\ IsSet(local[t].prefs)
                               /\ Complete(Val(local[t].prefs))

\* One thread has built a model and not yet published it while the other
\* has published: the entry is complete and differs from the model waiting.
C26_Witness ==
    \E t \in Threads :
        /\ pc[t] = "publish"
        /\ IsSet(cache[local[t].user_id])
        /\ cache[local[t].user_id] # local[t].prefs

\* ------------------------------------------------------------------------
\* avg_rating_given
\* ------------------------------------------------------------------------

\* The ratings attached to the user's review and purchase events
ReviewAndPurchaseRatings(u) ==
    LET rated == SelectSeq(store, LAMBDA e :
                     /\ e.user_id = u
                     /\ e.interaction_type \in {"review", "purchase"}
                     /\ IsSet(e.rating))
    IN  [i \in 1..Len(rated) |-> RInt(Val(rated[i].rating))]

\* C25: the avg_rating_given of a model just built for a user is the mean of
\* the ratings attached to the user's review and purchase events, and None
\* when there is none; a rating on a view or search event does not count.
C25_MeanOfReviewAndPurchaseRatings ==
    (IsRecs /\ ret.miss) =>
        LET ratings == ReviewAndPurchaseRatings(ret.user_id)
        IN  ret.prefs.avg_rating_given =
                IF ratings = <<>> THEN None ELSE Some(RMean(ratings))

\* ------------------------------------------------------------------------
\* Result sizes of the two filters
\* ------------------------------------------------------------------------

\* Products the neighbours of the call have interacted with and the user
\* has not
CollabScored ==
    {e.product_id : e \in {x \in SeqToSet(store) : HasKey(ret.similar, x.user_id)}}
        \ UserProducts(store, ret.user_id)

\* Active products of the categories the user's model weighs that the user
\* has not interacted with
ContentScored ==
    {p \in Products :
        /\ Catalog(p).is_active
        /\ HasKey(ret.prefs.categories, CategoryName(Catalog(p).category_id))}
        \ UserProducts(store, ret.user_id)

\* The number of entries a caller asking for n can be given: none when n is
\* negative
Slots(n) == IF n < 0 THEN 0 ELSE n

\* Each filter was asked for 2 x limit entries and returned exactly
\* min(2 x limit, number of its scored products), none of them interacted with
FiltersFillTheirSlots ==
    /\ ~ret.collab_failed =>
          /\ Len(ret.collab) =
                 Min(Slots(2 * ret.limit), Cardinality(CollabScored))
          /\ {ret.collab[i][1] : i \in 1..Len(ret.collab)} \subseteq CollabScored
    /\ Len(ret.content) = Min(Slots(2 * ret.limit), Cardinality(ContentScored))
    /\ {ret.content[i][1] : i \in 1..Len(ret.content)} \subseteq ContentScored

\* C23: _collaborative_filtering and _content_based_filtering each return
\* exactly min(limit, number of scored products the user has not interacted
\* with) entries, for every limit they are called with.
C23_FiltersFillTheirSlots == IsRecs => FiltersFillTheirSlots

\* C23, for the limits the specification admits: with limit >= 0 both filters
\* return exactly that many entries.
C23_FiltersFillTheirSlotsWhenLimitValid ==
    (IsRecs /\ ret.limit >= 0) => FiltersFillTheirSlots

\* A call whose user has interactions and whose collaborative filter filled
\* both its slots from three scored products.
C23_TruncatedFilter ==
    /\ IsRecs
    /\ ret.limit = 1
    /\ Cardinality(CollabScored) = 3
    /\ Len(ret.collab) = 2
    /\ UserProducts(store, ret.user_id) # {}

\* ------------------------------------------------------------------------
\* get_similar_products
\* ------------------------------------------------------------------------

IsSimilar == ret.op = "get_similar_products"

\* The products get_similar_products may return for the reference product
SimilarEligible ==
    IF ret.product_id \notin Products THEN {}
    ELSE {p \in Products \ {ret.product_id} :
             /\ Catalog(p).is_active
             /\ Catalog(p).category_id = Catalog(ret.product_id).category_id}

\* At most limit products, all eligible, none twice, in descending order of
\* similarity, and as many as limit and the eligible products allow
SimilarWithinLimit ==
    LET returned == {ret.value[i][1] : i \in 1..Len(ret.value)}
    IN  /\ Len(ret.value) <= Slots(ret.limit)
        /\ Len(ret.value) = Min(Slots(ret.limit), Cardinality(SimilarEligible))
        /\ Cardinality(returned) = Len(ret.value)
        /\ returned \subseteq SimilarEligible
        /\ Descending(ret.value)
        /\ \A i \in 1..Len(ret.value) :
              ret.value[i][2] = _calculate_product_similarity(
                                    Catalog(ret.product_id),
                                    Catalog(ret.value[i][1]))

\* C27: get_similar_products(p, limit) returns at most limit products, never
\* p itself, never an inactive product, never one of another category, in
\* descending order of similarity, and nothing for an id that is no product -
\* for every limit a caller passes.
C27_SimilarWithinLimit == IsSimilar => SimilarWithinLimit

\* C27, for the limits the specification admits: with limit >= 0 the result
\* of get_similar_products is as the claim says.
C27_SimilarWithinLimitWhenLimitValid ==
    (IsSimilar /\ ret.limit >= 0) => SimilarWithinLimit

\* A call for the inactive product of a category with two active products,
\* returning one of them.
C27_TruncatedSimilar ==
    /\ IsSimilar
    /\ ret.limit = 1
    /\ Cardinality(SimilarEligible) = 2
    /\ Len(ret.value) = 1

\* ------------------------------------------------------------------------
\* The users the collaborative filter reads
\* ------------------------------------------------------------------------

IsCollab == ret.op = "_collaborative_filtering"

\* Products user v has an event on, read off the table
ProductsOf(v) == {e.product_id : e \in {x \in SeqToSet(store) : x.user_id = v}}

Shared(u, v) == Cardinality(ProductsOf(u) \cap ProductsOf(v))
Joint(u, v) == Cardinality(ProductsOf(u) \cup ProductsOf(v))

\* J(u, v) > 0.1, in whole numbers
AboveFloor(u, v) == 10 * Shared(u, v) > Joint(u, v)

\* J(u, v) < J(u, w), in whole numbers
LessSimilar(u, v, w) ==
    Shared(u, v) * Joint(u, w) < Shared(u, w) * Joint(u, v)

\* The score the events of the users in chosen give product p for user u
RECURSIVE ScoreFrom(_, _, _, _)
ScoreFrom(events, u, chosen, p) ==
    IF events = <<>> THEN RZero
    ELSE LET e == events[1]
             rest == ScoreFrom(Tail(events), u, chosen, p)
         IN  IF e.user_id \in chosen /\ e.product_id = p
             THEN RAdd(CollabWeight(Rat(Shared(u, e.user_id),
                                        Joint(u, e.user_id)), e), rest)
             ELSE rest

\* C24: in _collaborative_filtering(u) a user contributes only if its
\* Jaccard similarity with u is strictly above 0.1; at most 10 users
\* contribute, and they are the 10 most similar of those above the floor;
\* the scores are made of the contributing users' events alone; for a user
\* without interactions the result is empty.
C24_TopTenAboveFloorContribute ==
    IsCollab =>
        LET u == ret.user_id
            chosen == {ret.similar[i][1] : i \in 1..Len(ret.similar)}
            above == {v \in 1..MaxCrowd \ {u} : AboveFloor(u, v)}
            scored == {e.product_id :
                          e \in {x \in SeqToSet(store) : x.user_id \in chosen}}
                      \ ProductsOf(u)
        IN  IF ProductsOf(u) = {}
            THEN ret.similar = <<>> /\ ret.value = <<>>
            ELSE /\ chosen \subseteq above
                 /\ Len(ret.similar) = Cardinality(chosen)
                 /\ Cardinality(chosen) = Min(10, Cardinality(above))
                 /\ \A v \in above \ chosen, w \in chosen : ~LessSimilar(u, w, v)
                 /\ \A i \in 1..Len(ret.value) :
                       /\ ret.value[i][1] \in scored
                       /\ ret.value[i][2] =
                              ScoreFrom(store, u, chosen, ret.value[i][1])
                 /\ Len(ret.value) = Min(ret.limit, Cardinality(scored))

\* Eleven users are above the floor and one is exactly on it: ten
\* contribute, and the scores are returned.
C24_Witness ==
    /\ IsCollab
    /\ ret.user_id = 1
    /\ Cardinality({v \in 2..MaxCrowd : AboveFloor(1, v)}) = 11
    /\ \E v \in 2..MaxCrowd : 10 * Shared(1, v) = Joint(1, v)
    /\ Len(ret.similar) = 10
    /\ ret.value # <<>>

=============================================================================
